---- MODULE Spec2Model ----
(***************************************************************************)
(* Model of the MindGrid knowledge-graph component                         *)
(* (frontend/src/components/NotesPanel.tsx, export KnowledgeGraph).        *)
(*                                                                         *)
(* Strings are sequences of one-character strings, so that the template    *)
(* literal that composes a link key, toLowerCase, includes and trim are     *)
(* computed and not assumed.  Fractions (importance, size) are exact        *)
(* rationals [num, den]; the source computes them in IEEE doubles.          *)
(***************************************************************************)
EXTENDS Integers, Sequences, FiniteSets, Bags, TLC

VARIABLES
    \* KnowledgeGraph: the graphData and projectId props and the search text
    graphData, projectId, searchQuery,
    \* KnowledgeGraph: view mode, animation ticker, simulation, mounting
    graphView, animationTick, liveIntervals, mounted,
    \* the force simulation of the graph surface: iterations of the current
    \* run, whether it runs, whether the viewport was zoomed to fit since the
    \* run started, how many timeouts of the initial camera zoom are pending,
    \* the forces
    engineTicks, engineRunning, viewportFitted, zoomTimers, linkDistance,
    chargeStrength,
    \* KnowledgeGraph: hover, selection, detail panel and definition fetches
    hoveredNode, selectedNode, showNotes, relatedConcepts, conceptDefinition,
    definitionFor, loadingDef, inflight, started,
    \* the detail panel (NotesPanel): isSaving of the instance on screen
    isSaving,
    \* the canvas: which nodes have finite coordinates, what the last frame drew
    coordsFinite, drawnNodes, drawnLinks,
    \* ConceptInsightsPanel: props isOpen and conceptName, state, fetches
    isOpen, conceptName, insights, panelLoading, panelError, panelInflight,
    panelStarted,
    \* the hosting page: which page, whether it has the data of a project
    \* (projectData is not null), the notes of the graph it passes down, the
    \* notes the backend stores, its loading and error state, the calls of its
    \* handlers that await a request and how many the user has started, the
    \* last save that returned
    page, hasProjectData, notes, serverNotes, hostLoading, hostError, hostRuns,
    hostStarted, lastSaved,
    \* the argument and the result of a function applied on its own
    input, output

dataVars == <<graphData, projectId, searchQuery>>
engineVars == <<engineTicks, engineRunning, viewportFitted, zoomTimers,
                linkDistance, chargeStrength>>
viewVars == <<graphView, animationTick, liveIntervals, mounted, engineVars>>
selectionVars == <<hoveredNode, selectedNode, showNotes, relatedConcepts,
                   conceptDefinition, definitionFor, loadingDef, inflight, started,
                   isSaving>>
drawVars == <<coordsFinite, drawnNodes, drawnLinks>>
probeVars == <<input, output>>

panelVars == <<isOpen, conceptName, insights, panelLoading, panelError,
               panelInflight, panelStarted>>
hostVars == <<page, hasProjectData, notes, serverNotes, hostLoading, hostError,
              hostRuns, hostStarted, lastSaved>>
\* what no event handler of the knowledge graph component touches
outsideVars == <<panelVars, hostVars, drawVars, probeVars>>

vars == <<dataVars, viewVars, selectionVars, panelVars, hostVars, drawVars,
          probeVars>>

(***************************************************************************)
(* Bounds of the explored inputs.                                          *)
(***************************************************************************)
\* largest number of entries of graphData.nodes
MaxRecords == 2
\* largest total number of neighbor references (ins/outs entries, or links)
MaxRefs == 2
\* largest value of the animation tick that is explored
MaxTick == 3
\* largest number of definition fetches started in one behaviour
MaxFetches == 3
\* largest number of insight fetches started in one behaviour
MaxInsightFetches == 3
\* largest length of a node id that is coloured
MaxIdLen == 7
\* largest number of visible nodes for which the forces are configured
MaxNodeCount == 45
\* largest number of timeouts of the initial camera zoom pending together
MaxZoomTimers == 2
\* largest number of calls of ProjectView's handlers that the user starts in
\* one behaviour (the loadProject of the mount effect is not counted)
MaxHostRuns == 2

\* concept names: "a", "a-a" (contains the key separator) and "B" (upper case)
Names == { <<"a">>, <<"a", "-", "a">>, <<"B">> }

\* search texts: "", " ", "b", "A", " b"
Queries == { <<>>, <<" ">>, <<"b">>, <<"A">>, <<" ", "b">> }

\* the value of a property that is absent from a JavaScript object
Undefined == <<"#undefined">>

(***************************************************************************)
(* String primitives.                                                      *)
(***************************************************************************)
LowerChar(c) ==
    CASE c = "A" -> "a"
      [] c = "B" -> "b"
      [] OTHER -> c

ToLowerCase(s) == [i \in 1..Len(s) |-> LowerChar(s[i])]

IsSpace(c) == c = " "

RECURSIVE TrimStart(_)
TrimStart(s) ==
    IF s # <<>> /\ IsSpace(Head(s)) THEN TrimStart(Tail(s)) ELSE s

RECURSIVE TrimEnd(_)
TrimEnd(s) ==
    IF s # <<>> /\ IsSpace(s[Len(s)]) THEN TrimEnd(SubSeq(s, 1, Len(s) - 1)) ELSE s

TrimIdentity(s) == s

Trim(s) == TrimEnd(TrimStart(s))

Includes(s, q) ==
    \E i \in 0..(Len(s) - Len(q)) : SubSeq(s, i + 1, i + Len(q)) = q

(***************************************************************************)
(* Sequence helpers.                                                       *)
(***************************************************************************)
Range(s) == {s[i] : i \in 1..Len(s)}

Max(S) == CHOOSE m \in S : \A x \in S : x <= m


(***************************************************************************)
(* Inputs.  An entry of graphData.nodes is a JavaScript object; hasIns and  *)
(* hasOuts say whether it carries the ins / outs property, id is Undefined  *)
(* when it carries no id.  graphData itself is absent (isNull), the         *)
(* pre-built form {nodes, links} (hasLinks), nodes alone, or the            *)
(* neighbor-list form of types/graph.ts (records {name, ins, outs}).        *)
(***************************************************************************)
NoGraph == [isNull |-> TRUE, hasLinks |-> FALSE, nodes |-> <<>>, links |-> <<>>]

ListsUpTo(k) == UNION { [1..m -> Names] : m \in 0..k }

\* a backend record {name, ins, outs} holding at most k neighbor references
RecordsUpTo(k) ==
    { r \in [id : {Undefined}, name : Names, hasIns : {TRUE}, hasOuts : {TRUE},
             ins : ListsUpTo(k), outs : ListsUpTo(k)] :
        Len(r.ins) + Len(r.outs) <= k }

RECURSIVE TotalRefs(_)
TotalRefs(records) ==
    IF records = <<>> THEN 0
    ELSE Len(Head(records).ins) + Len(Head(records).outs) + TotalRefs(Tail(records))

RECURSIVE RecordSeqs(_, _)
\* sequences of exactly n records holding at most k references in total
RecordSeqs(n, k) ==
    IF n = 0 THEN { <<>> }
    ELSE { <<p[1]>> \o p[2] :
             p \in { pp \in RecordsUpTo(k) \X RecordSeqs(n - 1, k) :
                       Len(pp[1].ins) + Len(pp[1].outs) + TotalRefs(pp[2]) <= k } }

\* the neighbor-list inputs of exactly n records
NeighborListInputs(n) ==
    { [isNull |-> FALSE, hasLinks |-> FALSE, nodes |-> ns, links |-> <<>>] :
        ns \in RecordSeqs(n, MaxRefs) }

PrebuiltNode(n) ==
    [id |-> n, name |-> n, hasIns |-> FALSE, hasOuts |-> FALSE,
     ins |-> <<>>, outs |-> <<>>]

\* {nodes, links} with id = name and every link endpoint the id of a node:
\* the force-graph library rejects a link whose endpoint is no node.
PrebuiltInputs ==
    UNION { { [isNull |-> FALSE, hasLinks |-> TRUE,
               nodes |-> [i \in 1..Len(ids) |-> PrebuiltNode(ids[i])], links |-> ls] :
              ls \in UNION { [1..m -> [source : Range(ids), target : Range(ids)]] :
                             m \in 0..MaxRefs } } :
            ids \in UNION { [1..k -> Names] : k \in 0..MaxRecords } }

\* {nodes} alone: nodes with id = name, no links property, no ins / outs
NodesOnlyInputs ==
    { [isNull |-> FALSE, hasLinks |-> FALSE,
       nodes |-> [i \in 1..Len(ids) |-> PrebuiltNode(ids[i])], links |-> <<>>] :
        ids \in UNION { [1..k -> Names] : k \in 1..MaxRecords } }

(***************************************************************************)
(* Graph model builder: enrichedData, lines 187-301.                       *)
(***************************************************************************)
GraphNode(n) == [id |-> n, name |-> n]

MapHas(m, key) == \E i \in 1..Len(m) : m[i].id = key

\* Map.set: a new key is appended, an existing key keeps its position
MapSet(m, key, node) ==
    IF MapHas(m, key)
    THEN [i \in 1..Len(m) |-> IF m[i].id = key THEN node ELSE m[i]]
    ELSE Append(m, node)

AddReferencedNone(m, names) == m

RECURSIVE AddReferenced(_, _)
\* names.forEach(n => { if (!nodeMap.has(n)) nodeMap.set(n, {id: n, name: n}) })
AddReferenced(m, names) ==
    IF names = <<>> THEN m
    ELSE AddReferenced(
           IF MapHas(m, Head(names)) THEN m
           ELSE MapSet(m, Head(names), GraphNode(Head(names))),
           Tail(names))

RECURSIVE FirstPass(_, _)
\* first pass: one node per record name and per referenced name
FirstPass(m, records) ==
    IF records = <<>> THEN m
    ELSE LET r  == Head(records)
             m1 == MapSet(m, r.name, GraphNode(r.name))
             m2 == IF r.hasIns THEN AddReferenced(m1, r.ins) ELSE m1
             m3 == IF r.hasOuts THEN AddReferenced(m2, r.outs) ELSE m2
         IN  FirstPass(m3, Tail(records))

\* `${source}-${target}`
LinkId(source, target) == source \o <<"-">> \o target

RECURSIVE EmitOuts(_, _, _)
\* node.outs.forEach: acc is [linkSet, links]
EmitOuts(acc, name, outs) ==
    IF outs = <<>> THEN acc
    ELSE LET linkId == LinkId(name, Head(outs))
         IN  EmitOuts(
               IF linkId \in acc.linkSet THEN acc
               ELSE [linkSet |-> acc.linkSet \cup {linkId},
                     links |-> Append(acc.links, [source |-> name, target |-> Head(outs)])],
               name, Tail(outs))

RECURSIVE EmitIns(_, _, _)
\* node.ins.forEach: acc is [linkSet, links]
EmitIns(acc, name, ins) ==
    IF ins = <<>> THEN acc
    ELSE LET linkId == LinkId(Head(ins), name)
         IN  EmitIns(
               IF linkId \in acc.linkSet THEN acc
               ELSE [linkSet |-> acc.linkSet \cup {linkId},
                     links |-> Append(acc.links, [source |-> Head(ins), target |-> name])],
               name, Tail(ins))

RECURSIVE SecondPass(_, _)
\* second pass: the outs of a record, then its ins, record by record
SecondPass(acc, records) ==
    IF records = <<>> THEN acc
    ELSE LET r  == Head(records)
             a1 == IF r.hasOuts THEN EmitOuts(acc, r.name, r.outs) ELSE acc
             a2 == IF r.hasIns THEN EmitIns(a1, r.name, r.ins) ELSE a1
         IN  SecondPass(a2, Tail(records))

\* graphData.nodes[0]?.ins !== undefined || graphData.nodes[0]?.outs !== undefined
IsNeighborListForm(g) ==
    /\ ~g.isNull
    /\ ~g.hasLinks
    /\ g.nodes # <<>>
    /\ (g.nodes[1].hasIns \/ g.nodes[1].hasOuts)

\* an entry of graphData.nodes used as a node as it is
PassThrough(rawNode) == [id |-> rawNode.id, name |-> rawNode.name]

\* the nodes and links the three branches of the format detection produce
BuildGraph(g) ==
    IF g.hasLinks
    THEN [nodes |-> [i \in 1..Len(g.nodes) |-> PassThrough(g.nodes[i])],
          links |-> g.links]
    ELSE IF IsNeighborListForm(g)
    THEN [nodes |-> FirstPass(<<>>, g.nodes),
          links |-> SecondPass([linkSet |-> {}, links |-> <<>>], g.nodes).links]
    ELSE [nodes |-> [i \in 1..Len(g.nodes) |-> PassThrough(g.nodes[i])],
          links |-> <<>>]

(***************************************************************************)
(* Importance scorer: lines 267-300.                                       *)
(***************************************************************************)
\* exact fractions standing for the doubles of the source
Rat(n, d) == [num |-> n, den |-> d]
RatTimesInt(r, k) == [num |-> r.num * k, den |-> r.den]
IntPlusRat(k, r) == [num |-> k * r.den + r.num, den |-> r.den]
RatEq(r, q) == r.num * q.den = q.num * r.den
RatLeq(r, q) == r.num * q.den <= q.num * r.den

\* typeof link.source === "string" ? link.source : link.source.id
\* (the simulation replaces an endpoint id by the node object of that id)
SourceId(link) == link.source
TargetId(link) == link.target

\* connectionCount.set(id, (connectionCount.get(id) || 0) + 1)
Increment(cc, id) ==
    IF id \in DOMAIN cc THEN [cc EXCEPT ![id] = @ + 1] ELSE cc @@ (id :> 1)

RECURSIVE CountConnections(_, _)
\* links.forEach: cc maps an id to the number of link ends at it
CountConnections(cc, links) ==
    IF links = <<>> THEN cc
    ELSE CountConnections(
           Increment(Increment(cc, SourceId(Head(links))), TargetId(Head(links))),
           Tail(links))

EmptyMap == [x \in {} |-> 0]

\* Math.max(...Array.from(connectionCount.values()), 1)
MaxConnections(cc) == Max({cc[id] : id \in DOMAIN cc} \cup {1})

\* connectionCount.get(node.id) || 1
Connections(cc, id) ==
    IF id \in DOMAIN cc /\ cc[id] # 0 THEN cc[id] ELSE 1

baseSize == 25
maxSize == 70

SizeOverMax(importance) == IntPlusRat(baseSize, RatTimesInt(importance, maxSize))

\* baseSize + (importance * (maxSize - baseSize))
Size(importance) == IntPlusRat(baseSize, RatTimesInt(importance, maxSize - baseSize))

EnrichNode(node, cc) ==
    LET connections == Connections(cc, node.id)
        importance  == Rat(connections, MaxConnections(cc))
    IN  [id |-> node.id, name |-> node.name, val |-> Size(importance),
         connections |-> connections, importance |-> importance]

NullData == [isNull |-> TRUE, nodes |-> <<>>, links |-> <<>>]

\* the useMemo of enrichedData as a function of the graphData prop
EnrichedDataOf(g) ==
    IF g.isNull THEN NullData
    ELSE LET b  == BuildGraph(g)
             cc == CountConnections(EmptyMap, b.links)
         IN  IF Len(b.nodes) = 0 THEN NullData
             ELSE [isNull |-> FALSE,
                   nodes |-> [i \in 1..Len(b.nodes) |-> EnrichNode(b.nodes[i], cc)],
                   links |-> b.links]

(***************************************************************************)
(* Search and neighborhood filter: filteredData, lines 304-340.            *)
(***************************************************************************)
\* ids of the nodes whose lower-cased name includes the lower-cased query
MatchedIds(nodes, query) ==
    { nodes[i].id : i \in { j \in 1..Len(nodes) :
                              Includes(ToLowerCase(nodes[j].name), query) } }

RECURSIVE ExpandOutgoingOnly(_, _, _)
ExpandOutgoingOnly(expandedIds, matchedIds, links) ==
    IF links = <<>> THEN expandedIds
    ELSE LET src == SourceId(Head(links))
             tgt == TargetId(Head(links))
             e1  == IF src \in matchedIds THEN expandedIds \cup {tgt} ELSE expandedIds
         IN  ExpandOutgoingOnly(e1, matchedIds, Tail(links))

RECURSIVE Expand(_, _, _)
\* links.forEach over expandedIds, which starts as a copy of matchedIds
Expand(expandedIds, matchedIds, links) ==
    IF links = <<>> THEN expandedIds
    ELSE LET src == SourceId(Head(links))
             tgt == TargetId(Head(links))
             e1  == IF src \in matchedIds THEN expandedIds \cup {tgt} ELSE expandedIds
             e2  == IF tgt \in matchedIds THEN e1 \cup {src} ELSE e1
         IN  Expand(e2, matchedIds, Tail(links))

NewSetEmpty(matchedIds) == {}

\* new Set(matchedIds)
NewSet(matchedIds) == matchedIds

\* the visible sub-graph with the three values computed again from the
\* visible links
FilteredDataRecomputed(e, q) ==
    IF e.isNull THEN NullData
    ELSE IF Trim(q) = <<>> THEN e
    ELSE LET query       == ToLowerCase(q)
             matchedIds  == MatchedIds(e.nodes, query)
             expandedIds == Expand(NewSet(matchedIds), matchedIds, e.links)
             links       == SelectSeq(e.links,
                              LAMBDA l : SourceId(l) \in expandedIds /\ TargetId(l) \in expandedIds)
             cc          == CountConnections(EmptyMap, links)
         IN  [isNull |-> FALSE,
              nodes |-> SelectSeq([i \in 1..Len(e.nodes) |-> EnrichNode(e.nodes[i], cc)],
                                  LAMBDA n : n.id \in expandedIds),
              links |-> links]

\* the useMemo of filteredData as a function of enrichedData and searchQuery
FilteredDataOf(e, q) ==
    IF e.isNull THEN NullData
    ELSE IF Trim(q) = <<>> THEN e
    ELSE LET query       == ToLowerCase(q)
             matchedIds  == MatchedIds(e.nodes, query)
             expandedIds == Expand(NewSet(matchedIds), matchedIds, e.links)
         IN  [isNull |-> FALSE,
              nodes |-> SelectSeq(e.nodes, LAMBDA n : n.id \in expandedIds),
              links |-> SelectSeq(e.links,
                          LAMBDA l : SourceId(l) \in expandedIds /\ TargetId(l) \in expandedIds)]

enrichedData == EnrichedDataOf(graphData)
filteredData == FilteredDataOf(enrichedData, searchQuery)

(***************************************************************************)
(* The component as a state machine.                                       *)
(***************************************************************************)
\* the controls bar, the graph surface and the detail panel are part of the
\* rendered tree only past the empty-state return
SearchRendered == ~filteredData.isNull /\ Len(filteredData.nodes) # 0

\* selectedNode = null
NoSelection == [isNull |-> TRUE]

\* no response has been written to conceptDefinition yet
NoConcept == <<"#none">>

\* useEffect cleanup of the ticker effect: clearInterval(interval), which
\* exists only if the effect body did not return early
ClearIntervalMissing(view, n) == n

ClearInterval(view, n) == IF view = "network" THEN n - 1 ELSE n

\* the ticker effect body: no interval unless graphView is "network"
StartInterval(view, n) == IF view = "network" THEN n + 1 ELSE n

cooldownTicks == 100
warmupTicks == 30

MathMax(a, b) == IF a >= b THEN a ELSE b
MathMin(a, b) == IF a <= b THEN a ELSE b

\* a force the component has not set
NotConfigured == 0

\* the force configuration effect: Math.max(150, Math.min(350, nodeCount * 10))
DistanceOnCountChange(nodeCount) == MathMax(150, MathMin(350, nodeCount * 10))

\* onEngineTick without the lower clamp
DistanceOnTickUnclamped(nodeCount) ==
    MathMin(300, (IF nodeCount = 0 THEN 1 ELSE nodeCount) * 8)

\* onEngineTick: nodeCount = length || 1, Math.max(120, Math.min(300, nodeCount * 8))
DistanceOnTick(nodeCount) ==
    MathMax(120, MathMin(300, (IF nodeCount = 0 THEN 1 ELSE nodeCount) * 8))

\* the graph surface (ForceGraph2D) is rendered, and fgRef refers to it
SurfaceRendered(view, f) == view = "network" /\ ~f.isNull /\ Len(f.nodes) # 0

\* the body of the force configuration effect for nodeCount visible nodes
ApplyCountForces(nodeCount) ==
    /\ linkDistance' = DistanceOnCountChange(nodeCount)
    /\ chargeStrength' = -1000

\* the body of onEngineTick for nodeCount visible nodes
ApplyTickForces(nodeCount) ==
    /\ linkDistance' = DistanceOnTick(nodeCount)
    /\ chargeStrength' = -800

\* the two effects with deps [filteredData?.nodes.length], which run when the
\* count has changed and act only on a rendered surface: the force
\* configuration effect, and the initial camera zoom effect, which sets a
\* timeout of 500 ms on every run and clears none
ConfigureForces(view, f, oldCount) ==
    IF SurfaceRendered(view, f) /\ Len(f.nodes) # oldCount
    THEN /\ zoomTimers < MaxZoomTimers
         /\ ApplyCountForces(Len(f.nodes))
         /\ zoomTimers' = zoomTimers + 1
    ELSE UNCHANGED <<linkDistance, chargeStrength, zoomTimers>>

\* the surface is given a graphData object: a run of the simulation starts
StartRun(view, f) ==
    /\ engineTicks' = 0
    /\ engineRunning' = SurfaceRendered(view, f)
    /\ viewportFitted' = FALSE

\* the component receives the graph g after mounting
ShowGraph(g) ==
    LET e == EnrichedDataOf(g)
    IN  /\ StartRun(graphView, e)
        /\ ConfigureForces(graphView, e, 0)

\* the state after the first render and its effects, with graphData g
Mounted(g, pid) ==
    /\ graphData = g
    /\ projectId = pid
    /\ searchQuery = <<>>
    /\ graphView = "network"
    /\ animationTick = 0
    /\ liveIntervals = StartInterval("network", 0)
    /\ mounted = TRUE
    /\ engineTicks = 0
    /\ engineRunning = (Len(g.nodes) # 0)
    /\ viewportFitted = FALSE
    /\ zoomTimers = 0
    /\ linkDistance = NotConfigured
    /\ chargeStrength = NotConfigured
    /\ hoveredNode = NoSelection
    /\ selectedNode = NoSelection
    /\ showNotes = FALSE
    /\ relatedConcepts = {}
    /\ conceptDefinition = <<>>
    /\ definitionFor = NoConcept
    /\ loadingDef = FALSE
    /\ inflight = {}
    /\ started = 0
    /\ isSaving = FALSE

\* insights = null
NoInsights == [isNull |-> TRUE, for |-> "", success |-> FALSE]

Concepts == { "X", "Y" }

\* the insights panel after construction: closed, nothing fetched
PanelClosed(c) ==
    /\ isOpen = FALSE
    /\ conceptName = c
    /\ insights = NoInsights
    /\ panelLoading = FALSE
    /\ panelError = ""
    /\ panelInflight = {}
    /\ panelStarted = 0

NoSave == [isNull |-> TRUE, concept |-> <<>>, text |-> ""]

NoNotes == [n \in Names |-> ""]

\* a host page showing the graph, none of its handlers under way
HostIdle(pg) ==
    /\ page = pg
    /\ hasProjectData = TRUE
    /\ notes = NoNotes
    /\ serverNotes = NoNotes
    /\ hostLoading = FALSE
    /\ hostError = ""
    /\ hostRuns = EmptyBag
    /\ hostStarted = 0
    /\ lastSaved = NoSave

\* no frame drawn yet, every coordinate still to be set by the simulation
NoFrame ==
    /\ coordsFinite = {}
    /\ drawnNodes = {}
    /\ drawnLinks = {}

\* no function applied on its own
NoProbe ==
    /\ input = <<>>
    /\ output = <<>>

Init ==
    /\ Mounted(NoGraph, <<"p">>)
    /\ PanelClosed("X") /\ HostIdle("project") /\ NoFrame /\ NoProbe

\* the host page passes the project's graph in the neighbor-list form
ReceiveNeighborList ==
    /\ graphData = NoGraph
    /\ \E n \in 0..MaxRecords : \E g \in NeighborListInputs(n) :
          graphData' = g /\ ShowGraph(g)
    /\ UNCHANGED <<outsideVars, projectId, searchQuery, graphView, animationTick,
                   liveIntervals, mounted, selectionVars>>

\* a host passes a graph in the pre-built {nodes, links} form, or nodes alone
ReceivePrebuilt ==
    /\ graphData = NoGraph
    /\ \E g \in PrebuiltInputs \cup NodesOnlyInputs : graphData' = g /\ ShowGraph(g)
    /\ UNCHANGED <<outsideVars, projectId, searchQuery, graphView, animationTick,
                   liveIntervals, mounted, selectionVars>>

\* onChange of the search box: setSearchQuery(e.target.value); the useMemo of
\* filteredData returns enrichedData itself for every blank query, so only a
\* change that involves a non-blank query gives the graph surface a new
\* filteredData object, which restarts the simulation
SetSearchQuery ==
    /\ mounted
    /\ SearchRendered
    /\ \E q \in Queries :
          /\ searchQuery' = q
          /\ IF q = searchQuery \/ (Trim(q) = <<>> /\ Trim(searchQuery) = <<>>)
             THEN UNCHANGED engineVars
             ELSE LET f == FilteredDataOf(enrichedData, q)
                  IN  /\ StartRun(graphView, f)
                      /\ ConfigureForces(graphView, f, Len(filteredData.nodes))
    /\ UNCHANGED <<outsideVars, graphData, projectId, graphView, animationTick, liveIntervals,
                   mounted, selectionVars>>

\* onClick of the Network / Timeline buttons: setGraphView(v), then the
\* ticker effect of the previous view is cleaned up and the effect runs again;
\* the surface is unmounted in the timeline view and mounted anew, with the
\* forces of a new simulation, in the network view
SetGraphView ==
    /\ mounted
    /\ SearchRendered
    /\ \E v \in {"network", "timeline"} :
          /\ graphView' = v
          /\ IF v = graphView
             THEN UNCHANGED <<liveIntervals, engineVars>>
             ELSE /\ liveIntervals' = StartInterval(v, ClearInterval(graphView, liveIntervals))
                  /\ StartRun(v, filteredData)
                  /\ linkDistance' = NotConfigured
                  /\ chargeStrength' = NotConfigured
                  /\ UNCHANGED zoomTimers
    /\ UNCHANGED <<outsideVars, dataVars, animationTick, mounted, selectionVars>>

\* the interval callback: setAnimationTick(t => t + 1)
TickerFires ==
    /\ liveIntervals > 0
    /\ animationTick < MaxTick
    /\ animationTick' = animationTick + 1
    /\ UNCHANGED <<outsideVars, dataVars, graphView, liveIntervals, engineVars, mounted,
                   selectionVars>>

\* The iteration loop is the one of the react-force-graph package, which is
\* no part of the sources; EngineTick, EngineStop and NodeDrag follow what the
\* package documents for the props the component passes (cooldownTicks,
\* onEngineTick, onEngineStop, enableNodeDrag).  Only the bodies of the two
\* callbacks are code of the component.

\* one cool-down iteration of the running simulation (there is a run only on a
\* rendered surface), then onEngineTick: the link distance and the charge are
\* set from the visible node count
EngineTick ==
    /\ mounted
    /\ engineRunning
    /\ engineTicks < cooldownTicks
    /\ engineTicks' = engineTicks + 1
    /\ ApplyTickForces(Len(filteredData.nodes))
    /\ UNCHANGED <<engineRunning, viewportFitted, zoomTimers>>
    /\ UNCHANGED <<outsideVars, dataVars, graphView, animationTick, liveIntervals, mounted,
                   selectionVars>>

\* the running simulation stops, at the latest when no cool-down iteration is
\* left, and the surface calls onEngineStop: fgRef.current?.zoomToFit(400, 80)
EngineStop ==
    /\ mounted
    /\ engineRunning
    /\ engineRunning' = FALSE
    /\ viewportFitted' = TRUE
    /\ UNCHANGED <<engineTicks, zoomTimers, linkDistance, chargeStrength>>
    /\ UNCHANGED <<outsideVars, dataVars, graphView, animationTick, liveIntervals, mounted,
                   selectionVars>>

\* enableNodeDrag={true}: the user drags a node of the surface; the package
\* reheats the simulation and starts its countdown of iterations again
NodeDrag ==
    /\ mounted
    /\ SurfaceRendered(graphView, filteredData)
    /\ engineTicks' = 0
    /\ engineRunning' = TRUE
    /\ UNCHANGED <<viewportFitted, zoomTimers, linkDistance, chargeStrength>>
    /\ UNCHANGED <<outsideVars, dataVars, graphView, animationTick, liveIntervals, mounted,
                   selectionVars>>

\* one of the pending timeouts of the initial camera zoom effect fires:
\* fgRef.current?.zoomToFit(400, 100), whether or not the simulation still
\* runs; nothing cancels a timeout, and without a rendered surface
\* fgRef.current is null
ZoomTimerFires ==
    /\ zoomTimers > 0
    /\ zoomTimers' = zoomTimers - 1
    /\ viewportFitted' = (viewportFitted \/ (mounted /\ SurfaceRendered(graphView, filteredData)))
    /\ UNCHANGED <<engineTicks, engineRunning, linkDistance, chargeStrength>>
    /\ UNCHANGED <<outsideVars, dataVars, graphView, animationTick, liveIntervals, mounted,
                   selectionVars>>

\* onNodeHover of the surface: setHoveredNode(node), node or null
HoverNode ==
    /\ mounted
    /\ SurfaceRendered(graphView, filteredData)
    /\ \E n \in Range(filteredData.nodes) \cup {NoSelection} : hoveredNode' = n
    /\ UNCHANGED <<outsideVars, dataVars, viewVars, selectedNode, showNotes,
                   relatedConcepts, conceptDefinition, definitionFor, loadingDef,
                   inflight, started, isSaving>>

\* the host stops rendering the component: the effect cleanups run and the
\* surface with its simulation is gone
Unmount ==
    /\ mounted
    /\ mounted' = FALSE
    /\ liveIntervals' = ClearInterval(graphView, liveIntervals)
    /\ engineRunning' = FALSE
    /\ UNCHANGED <<engineTicks, viewportFitted, zoomTimers, linkDistance, chargeStrength>>
    /\ UNCHANGED <<outsideVars, dataVars, graphView, animationTick, selectionVars>>

Next ==
    \/ ReceiveNeighborList
    \/ ReceivePrebuilt
    \/ SetSearchQuery

Spec == Init /\ [][Next]_vars

(***************************************************************************)
(* Selection, detail panel and definition fetches.                         *)
(***************************************************************************)
SampleRecord(name, outs) ==
    [id |-> Undefined, name |-> name, hasIns |-> TRUE, hasOuts |-> TRUE,
     ins |-> <<>>, outs |-> outs]

\* two loaded projects: the chain B -> a -> a-a, and a with two neighbors
SampleGraphs ==
    { [isNull |-> FALSE, hasLinks |-> FALSE, links |-> <<>>, nodes |-> ns] :
        ns \in { << SampleRecord(<<"B">>, << <<"a">> >>),
                    SampleRecord(<<"a">>, << <<"a","-","a">> >>) >>,
                 << SampleRecord(<<"a">>, << <<"B">>, <<"a","-","a">> >>) >> } }

\* projectId as the hosts pass it: a project's id, or "" on the graph page
ProjectIds == { <<>>, <<"p">> }

\* getRelatedConcepts: the neighbors of nodeId in the visible sub-graph
GetRelatedConcepts(f, nodeId) ==
    IF f.isNull THEN {}
    ELSE { TargetId(f.links[i]) : i \in { k \in 1..Len(f.links) : SourceId(f.links[k]) = nodeId } }
         \cup
         { SourceId(f.links[i]) : i \in { k \in 1..Len(f.links) : TargetId(f.links[k]) = nodeId } }

\* what the definition endpoint can answer for a concept
Responses(nodeId) ==
    { [kind |-> "ok", definition |-> <<"d", ":">> \o nodeId],
      [kind |-> "ok", definition |-> <<>>],
      [kind |-> "notOk", definition |-> <<>>],
      [kind |-> "throws", definition |-> <<>>] }

\* the text handed to setConceptDefinition, without the || fallback
DefinitionTextNoFallback(r) ==
    IF r.kind = "ok" THEN r.definition
    ELSE IF r.kind = "notOk" THEN <<"No definition available.">>
    ELSE <<"Error fetching definition">>

\* the text handed to setConceptDefinition on each path of the try/catch
DefinitionText(r) ==
    IF r.kind = "ok"
    THEN IF r.definition = <<>> THEN <<"No definition available">> ELSE r.definition
    ELSE IF r.kind = "notOk" THEN <<"No definition available.">>
    ELSE <<"Error fetching definition">>

\* fetchConceptDefinition up to its await: nothing without a projectId
StartFetch(nodeId) ==
    IF projectId = <<>>
    THEN UNCHANGED <<loadingDef, inflight, started>>
    ELSE /\ loadingDef' = TRUE
         /\ inflight' = inflight \cup { [seq |-> started + 1, nodeId |-> nodeId] }
         /\ started' = started + 1

\* onNodeClick of the canvas, onClick of a timeline row; the open detail panel
\* is a full-window overlay, so a node is clickable only while it is closed.
\* The panel is rendered under `showNotes && selectedNode`, so the click
\* mounts a new instance of it, with isSaving false
HandleNodeClick ==
    /\ mounted
    /\ SearchRendered
    /\ ~showNotes
    /\ projectId = <<>> \/ started < MaxFetches
    /\ \E i \in 1..Len(filteredData.nodes) :
          LET node == filteredData.nodes[i]
          IN  /\ selectedNode' = node
              /\ showNotes' = TRUE
              /\ relatedConcepts' = GetRelatedConcepts(filteredData, node.id)
              /\ StartFetch(node.id)
    /\ isSaving' = FALSE
    /\ UNCHANGED <<outsideVars, dataVars, viewVars, hoveredNode, conceptDefinition,
                   definitionFor>>

\* onClose of the detail panel: setShowNotes(false), which unmounts the
\* instance of the panel together with its isSaving; a handleSave of that
\* instance that is still awaiting no longer reaches a panel
ClosePanel ==
    /\ mounted
    /\ SearchRendered
    /\ showNotes
    /\ selectedNode # NoSelection
    /\ showNotes' = FALSE
    /\ isSaving' = FALSE
    /\ hostRuns' = BagOfAll(LAMBDA run : [run EXCEPT !.panel = FALSE], hostRuns)
    /\ UNCHANGED <<page, hasProjectData, notes, serverNotes, hostLoading, hostError, hostStarted,
                   lastSaved>>
    /\ UNCHANGED <<panelVars, drawVars, probeVars, dataVars, viewVars, hoveredNode,
                   selectedNode, relatedConcepts, conceptDefinition, definitionFor,
                   loadingDef, inflight, started>>

\* fetchConceptDefinition after its await, for the fetch f answered by r:
\* setConceptDefinition(...) on one of the four paths, then the finally block.
\* definitionFor records which concept the displayed text was fetched for.
\* State updates of an unmounted component are dropped.
ResolveFetch(f, r) ==
    /\ f \in inflight
    /\ inflight' = inflight \ {f}
    /\ IF mounted
       THEN /\ conceptDefinition' = DefinitionText(r)
            /\ definitionFor' = f.nodeId
            /\ loadingDef' = FALSE
       ELSE UNCHANGED <<conceptDefinition, definitionFor, loadingDef>>
    /\ UNCHANGED <<outsideVars, dataVars, viewVars, hoveredNode, selectedNode, showNotes, relatedConcepts,
                   started, isSaving>>

ResolveSomeFetch == \E f \in inflight : \E r \in Responses(f.nodeId) : ResolveFetch(f, r)

InitFetch ==
    /\ \E g \in SampleGraphs : \E pid \in ProjectIds : Mounted(g, pid)
    /\ PanelClosed("X")
    /\ HostIdle("project") /\ NoFrame /\ NoProbe

NextFetch ==
    \/ HandleNodeClick
    \/ ClosePanel
    \/ ResolveSomeFetch
    \/ Unmount

\* a started request settles: it is answered, or it fails
SpecFetch == InitFetch /\ [][NextFetch]_vars /\ WF_vars(ResolveSomeFetch)

(***************************************************************************)
(* Hover, selection, view mode and search together.  The definition        *)
(* fetches stay in flight here.                                            *)
(***************************************************************************)
\* the detail panel is on screen: line 466 returns before the main render
\* when the visible node list is empty
PanelShownIn(g, q, m, show, selected) ==
    LET f == FilteredDataOf(EnrichedDataOf(g), q)
    IN  m /\ ~f.isNull /\ Len(f.nodes) # 0 /\ show /\ selected # NoSelection

PanelShown == PanelShownIn(graphData, searchQuery, mounted, showNotes, selectedNode)

InitSelect ==
    /\ \E g \in SampleGraphs : \E pid \in ProjectIds : Mounted(g, pid)
    /\ PanelClosed("X")
    /\ HostIdle("project") /\ NoFrame /\ NoProbe

NextSelect ==
    \/ HoverNode
    \/ HandleNodeClick
    \/ ClosePanel
    \/ SetGraphView
    \/ SetSearchQuery

SpecSelect == InitSelect /\ [][NextSelect]_vars

(***************************************************************************)
(* The animation ticker and the force simulation.                          *)
(***************************************************************************)
InitTicker ==
    /\ \E g \in SampleGraphs : Mounted(g, <<"p">>)
    /\ PanelClosed("X")
    /\ HostIdle("project") /\ NoFrame /\ NoProbe

NextTicker ==
    \/ SetGraphView
    \/ SetSearchQuery
    \/ TickerFires
    \/ EngineTick
    \/ EngineStop
    \/ NodeDrag
    \/ ZoomTimerFires
    \/ Unmount

SpecTicker == InitTicker /\ [][NextTicker]_vars

(***************************************************************************)
(* ConceptInsightsPanel.  fetchInsights is a useCallback with deps          *)
(* [conceptName, graphMetadata, relatedConcepts], and the auto-fetch effect *)
(* has deps [isOpen, fetchInsights].  No parent of the panel is in the     *)
(* sources: whether a render gets the graphMetadata and relatedConcepts    *)
(* objects of the render before is the parent's choice, and with           *)
(* relatedConcepts left out the default [] is a new array in every render, *)
(* so that the effect then runs after every render.                        *)
(***************************************************************************)
InsightOutcomes == { "success", "successFalse", "notOk", "throws" }

\* fetchInsights up to its await, in the render whose conceptName is c
FetchInsights(c) ==
    /\ panelLoading' = TRUE
    /\ panelError' = ""
    /\ panelInflight' = panelInflight \cup { [seq |-> panelStarted + 1, concept |-> c] }
    /\ panelStarted' = panelStarted + 1

\* the auto-fetch effect, run in a render with the given isOpen and loading
AutoFetch(open, loading, c) ==
    IF open /\ ~loading
    THEN FetchInsights(c)
    ELSE UNCHANGED <<panelLoading, panelError, panelInflight, panelStarted>>

\* the parent opens the panel: the auto-fetch effect runs (isOpen changed)
OpenInsights ==
    /\ ~isOpen
    /\ panelStarted < MaxInsightFetches
    /\ isOpen' = TRUE
    /\ AutoFetch(TRUE, panelLoading, conceptName)
    /\ UNCHANGED <<conceptName, insights>>
    /\ UNCHANGED <<dataVars, viewVars, selectionVars, hostVars, drawVars, probeVars>>

\* onClose: the parent closes the panel; the state is kept
CloseInsights ==
    /\ isOpen
    /\ isOpen' = FALSE
    /\ UNCHANGED <<conceptName, insights, panelLoading, panelError,
                   panelInflight, panelStarted>>
    /\ UNCHANGED <<dataVars, viewVars, selectionVars, hostVars, drawVars, probeVars>>

\* the parent passes another conceptName: the clearing effect, then the
\* auto-fetch effect, which reads the loading value of that render; the
\* updates are applied in the order they were issued.  When that render was
\* loading, the clearing effect's setLoading(false) gives a second render, and
\* the auto-fetch effect runs after it if its fetchInsights is a new one
\* (fresh)
ChangeConcept(c) ==
    /\ c # conceptName
    /\ panelStarted < MaxInsightFetches
    /\ conceptName' = c
    /\ insights' = NoInsights
    /\ \E fresh \in BOOLEAN :
          IF isOpen /\ (~panelLoading \/ fresh)
          THEN FetchInsights(c)
          ELSE /\ panelLoading' = FALSE
               /\ panelError' = ""
               /\ UNCHANGED <<panelInflight, panelStarted>>
    /\ UNCHANGED isOpen
    /\ UNCHANGED <<dataVars, viewVars, selectionVars, hostVars, drawVars, probeVars>>

\* onClick of the footer button, disabled while loading or once loaded
ClickRefresh ==
    /\ isOpen
    /\ ~panelLoading
    /\ ~(~insights.isNull /\ insights.success)
    /\ panelStarted < MaxInsightFetches
    /\ FetchInsights(conceptName)
    /\ UNCHANGED <<isOpen, conceptName, insights>>
    /\ UNCHANGED <<dataVars, viewVars, selectionVars, hostVars, drawVars, probeVars>>

\* onClick of Try Again, rendered with the failure message
ClickTryAgain ==
    /\ isOpen
    /\ ~insights.isNull /\ ~insights.success
    /\ panelStarted < MaxInsightFetches
    /\ FetchInsights(conceptName)
    /\ UNCHANGED <<isOpen, conceptName, insights>>
    /\ UNCHANGED <<dataVars, viewVars, selectionVars, hostVars, drawVars, probeVars>>

\* the parent renders the open panel again with a new graphMetadata or
\* relatedConcepts object, or without relatedConcepts: the auto-fetch effect
\* runs
ParentRenders ==
    /\ isOpen
    /\ ~panelLoading
    /\ panelStarted < MaxInsightFetches
    /\ AutoFetch(isOpen, panelLoading, conceptName)
    /\ UNCHANGED <<isOpen, conceptName, insights>>
    /\ UNCHANGED <<dataVars, viewVars, selectionVars, hostVars, drawVars, probeVars>>

\* fetchInsights after its await, for the fetch f with outcome r:
\* setInsights(data) or setError(message), then setLoading(false); in the
\* render that follows loading is false, and the auto-fetch effect runs if
\* the fetchInsights of that render is a new one (fresh): the open panel
\* starts the next fetch, whose setError("") clears the message
ResolveInsights(f, r) ==
    /\ f \in panelInflight
    /\ insights' = IF r \in {"success", "successFalse"}
                   THEN [isNull |-> FALSE, for |-> f.concept, success |-> (r = "success")]
                   ELSE insights
    /\ \E fresh \in BOOLEAN :
          IF fresh /\ isOpen /\ panelStarted < MaxInsightFetches
          THEN /\ panelLoading' = TRUE
               /\ panelError' = ""
               /\ panelInflight' = (panelInflight \ {f})
                                       \cup { [seq |-> panelStarted + 1, concept |-> conceptName] }
               /\ panelStarted' = panelStarted + 1
          ELSE /\ panelLoading' = FALSE
               /\ panelError' = IF r \in {"success", "successFalse"} THEN panelError
                                 ELSE IF r = "notOk" THEN "HTTP error!" ELSE "Failed to fetch"
               /\ panelInflight' = panelInflight \ {f}
               /\ UNCHANGED panelStarted
    /\ UNCHANGED <<isOpen, conceptName>>
    /\ UNCHANGED <<dataVars, viewVars, selectionVars, hostVars, drawVars, probeVars>>

\* what the content area renders
ShowsFailure == isOpen /\ ~insights.isNull /\ ~insights.success
RefreshEnabled == isOpen /\ ~panelLoading /\ ~(~insights.isNull /\ insights.success)

InitPanel ==
    /\ Mounted(NoGraph, <<"p">>)
    /\ \E c \in Concepts : PanelClosed(c)
    /\ HostIdle("project") /\ NoFrame /\ NoProbe

NextPanel ==
    \/ OpenInsights
    \/ CloseInsights
    \/ \E c \in Concepts : ChangeConcept(c)
    \/ ClickRefresh
    \/ ClickTryAgain
    \/ ParentRenders
    \/ \E f \in panelInflight : \E r \in InsightOutcomes : ResolveInsights(f, r)

SpecPanel == InitPanel /\ [][NextPanel]_vars

(***************************************************************************)
(* The pages hosting the knowledge graph: ProjectView and the graph page.  *)
(***************************************************************************)
Texts == { "", "t" }

\* getCurrentNotes: the notes of the first node of graphData.nodes whose name
\* or id is nodeId (match?.notes || ""), "" when no node has that name or id
GetCurrentNotes(nodeId) ==
    LET found == { i \in 1..Len(graphData.nodes) :
                      \/ graphData.nodes[i].name = nodeId
                      \/ graphData.nodes[i].id = nodeId }
    IN  IF found = {} THEN ""
        ELSE notes[graphData.nodes[CHOOSE i \in found : \A j \in found : i <= j].name]

\* the backend stores the notes of a concept (updateConceptNotes)
StoreNotes(store, concept, text) == [store EXCEPT ![concept] = text]

\* the host renders its spinner or its error screen instead of the graph:
\* the effect cleanups run, and the instance is gone with its state, its
\* simulation and the fetches it was awaiting; the timeouts it has pending
\* find fgRef.current null and do nothing, to a later instance as well
HostUnmountsGraph ==
    /\ mounted' = FALSE
    /\ liveIntervals' = IF mounted THEN ClearInterval(graphView, liveIntervals)
                        ELSE liveIntervals
    /\ searchQuery' = <<>>
    /\ graphView' = "network"
    /\ animationTick' = 0
    /\ engineTicks' = 0
    /\ engineRunning' = FALSE
    /\ viewportFitted' = FALSE
    /\ zoomTimers' = 0
    /\ linkDistance' = NotConfigured
    /\ chargeStrength' = NotConfigured
    /\ hoveredNode' = NoSelection
    /\ selectedNode' = NoSelection
    /\ showNotes' = FALSE
    /\ relatedConcepts' = {}
    /\ conceptDefinition' = <<>>
    /\ definitionFor' = NoConcept
    /\ loadingDef' = FALSE
    /\ inflight' = {}
    /\ started' = 0
    /\ isSaving' = FALSE
    /\ UNCHANGED <<graphData, projectId>>

\* the host renders the graph again: a new instance with its initial state
HostRemountsGraph ==
    /\ searchQuery' = <<>>
    /\ graphView' = "network"
    /\ animationTick' = 0
    /\ liveIntervals' = StartInterval("network", 0)
    /\ mounted' = TRUE
    /\ engineTicks' = 0
    /\ engineRunning' = (Len(graphData.nodes) # 0)
    /\ viewportFitted' = FALSE
    /\ zoomTimers' = 0
    /\ linkDistance' = NotConfigured
    /\ chargeStrength' = NotConfigured
    /\ hoveredNode' = NoSelection
    /\ selectedNode' = NoSelection
    /\ showNotes' = FALSE
    /\ relatedConcepts' = {}
    /\ conceptDefinition' = <<>>
    /\ definitionFor' = NoConcept
    /\ loadingDef' = FALSE
    /\ inflight' = {}
    /\ started' = 0
    /\ isSaving' = FALSE
    /\ UNCHANGED <<graphData, projectId>>

\* the render of ProjectView after its state has changed: the spinner under
\* `if (loading)`, the error screen under `if (error)`, "Project not found"
\* under `if (!projectData)`, the graph past the three.
\* runs are the calls still awaiting a request; a call of handleSaveNotes
\* whose panel instance is unmounted no longer reaches the isSaving of a
\* panel.  A graph that stays on screen while setProjectData stores the
\* response (fresh) is given a new graphData object, which restarts the
\* simulation; a panel that stays on screen while its handleSave returns
\* (returned) sets isSaving back to false
HostRenders(fresh, runs, returned) ==
    IF hostLoading' \/ hostError' # "" \/ ~hasProjectData'
    THEN /\ HostUnmountsGraph
         /\ hostRuns' = BagOfAll(LAMBDA run : [run EXCEPT !.panel = FALSE], runs)
    ELSE IF ~mounted
    THEN /\ HostRemountsGraph
         /\ hostRuns' = runs
    ELSE /\ hostRuns' = runs
         /\ isSaving' = IF returned THEN FALSE ELSE isSaving
         /\ IF fresh
            THEN StartRun(graphView, filteredData)
            ELSE UNCHANGED <<engineTicks, engineRunning, viewportFitted>>
         /\ UNCHANGED <<dataVars, graphView, animationTick, liveIntervals, mounted,
                        zoomTimers, linkDistance, chargeStrength, hoveredNode, selectedNode,
                        showNotes, relatedConcepts, conceptDefinition, definitionFor,
                        loadingDef, inflight, started>>

\* the save handler that does nothing: the await of handleSave returns at
\* once and its finally block sets isSaving back to false
SaveNotesDropped(text) ==
    /\ lastSaved' = [isNull |-> FALSE, concept |-> selectedNode.name, text |-> text]
    /\ UNCHANGED <<hostRuns, hostStarted, isSaving>>

\* ProjectView.handleSaveNotes up to its first await, under handleSave of the
\* panel on screen, which has set isSaving
HandleSaveNotes(text) ==
    /\ hostStarted < MaxHostRuns
    /\ hostRuns' = hostRuns (+) SetToBag({[kind |-> "saveNotes", step |-> "updating",
                                           concept |-> selectedNode.name, text |-> text,
                                           panel |-> TRUE, seen |-> {}]})
    /\ hostStarted' = hostStarted + 1
    /\ isSaving' = TRUE
    /\ UNCHANGED lastSaved

\* Save Notes in the detail panel (disabled={isSaving}): await
\* onSaveNotes(conceptName, notes), which is handleSaveNotes in ProjectView
\* and async () => {} on the graph page
SaveNotes(text) ==
    /\ mounted
    /\ SearchRendered
    /\ showNotes
    /\ selectedNode # NoSelection
    /\ ~isSaving
    /\ IF page = "graph" THEN SaveNotesDropped(text) ELSE HandleSaveNotes(text)
    /\ UNCHANGED <<page, hasProjectData, notes, serverNotes, hostLoading, hostError>>
    /\ UNCHANGED <<dataVars, viewVars, hoveredNode, selectedNode, showNotes,
                   relatedConcepts, conceptDefinition, definitionFor, loadingDef,
                   inflight, started, panelVars, drawVars, probeVars>>

\* what a request of ProjectView settles with: it resolves, with a response
\* that has the data asked for (found) or has none (project_data of the
\* response of getProject is missing), or it rejects with an Error whose
\* message is "" or "boom", or with a value that is no Error
Settlements ==
    { [ok |-> TRUE, found |-> TRUE, isError |-> FALSE, message |-> ""],
      [ok |-> TRUE, found |-> FALSE, isError |-> FALSE, message |-> ""],
      [ok |-> FALSE, found |-> FALSE, isError |-> TRUE, message |-> ""],
      [ok |-> FALSE, found |-> FALSE, isError |-> TRUE, message |-> "boom"],
      [ok |-> FALSE, found |-> FALSE, isError |-> FALSE, message |-> ""] }

\* err instanceof Error ? err.message : fallback
ErrorMessage(r, fallback) == IF r.isError THEN r.message ELSE fallback

\* the backend handles the updateConceptNotes request of one call of
\* handleSaveNotes: it stores the note, at some time between the request and
\* the arrival of its answer.  The response of a getProject under way is built
\* by the backend at some time between its request and its arrival: each
\* store is one more state of the notes that such a response may carry (seen)
BackendStoresNote ==
    /\ \E run \in BagToSet(hostRuns) :
          /\ run.kind = "saveNotes"
          /\ run.step = "updating"
          /\ serverNotes' = StoreNotes(serverNotes, run.concept, run.text)
          /\ hostRuns' = BagOfAll(LAMBDA x : IF x.step = "loading"
                                             THEN [x EXCEPT !.seen = @ \cup {serverNotes'}]
                                             ELSE x,
                                  (hostRuns (-) SetToBag({run}))
                                     (+) SetToBag({[run EXCEPT !.step = "stored"]}))
    /\ UNCHANGED <<page, hasProjectData, notes, hostLoading, hostError, hostStarted, lastSaved>>
    /\ UNCHANGED <<dataVars, viewVars, selectionVars, panelVars, drawVars, probeVars>>

\* updateConceptNotes of one call of handleSaveNotes settles with r: on
\* success the backend has stored the note and loadProject starts
\* (setLoading(true), then the getProject request); on failure, before or
\* after the backend stored the note, the catch sets the error and the
\* handler returns
UpdateNotesSettles(r) ==
    /\ \E run \in BagToSet(hostRuns) :
          /\ run.kind = "saveNotes"
          /\ run.step \in {"updating", "stored"}
          /\ r.ok => run.step = "stored"
          /\ UNCHANGED <<hasProjectData, serverNotes>>
          /\ IF r.ok
             THEN /\ hostLoading' = TRUE
                  /\ UNCHANGED hostError
                  /\ HostRenders(FALSE,
                        (hostRuns (-) SetToBag({run}))
                           (+) SetToBag({[run EXCEPT !.step = "loading",
                                                     !.seen = {serverNotes}]}),
                        FALSE)
             ELSE /\ hostError' = ErrorMessage(r, "Failed to save notes")
                  /\ UNCHANGED hostLoading
                  /\ HostRenders(FALSE, hostRuns (-) SetToBag({run}), run.panel)
    /\ UNCHANGED <<page, notes, hostStarted, lastSaved, panelVars, drawVars, probeVars>>

\* getProject settles with r inside the loadProject of one call of a handler
\* (kind): setProjectData(response.project_data) or setError, then
\* setLoading(false); the handler returns.  The notes of the response are the
\* notes the backend had at some time since the request was sent (run.seen),
\* the notes of updates still awaited that it has stored included
LoadProjectSettles(kind, r) ==
    /\ \E run \in BagToSet(hostRuns) :
          /\ run.kind = kind
          /\ run.step = "loading"
          /\ IF r.ok
             THEN /\ hasProjectData' = r.found
                  /\ IF r.found
                     THEN \E response \in run.seen : notes' = response
                     ELSE UNCHANGED notes
                  /\ lastSaved' = IF kind = "saveNotes"
                                  THEN [isNull |-> FALSE, concept |-> run.concept,
                                        text |-> run.text]
                                  ELSE lastSaved
                  /\ UNCHANGED hostError
             ELSE /\ hostError' = ErrorMessage(r, "Failed to load project")
                  /\ UNCHANGED <<hasProjectData, notes, lastSaved>>
          /\ hostLoading' = FALSE
          /\ HostRenders(r.ok /\ r.found, hostRuns (-) SetToBag({run}), FALSE)
    /\ UNCHANGED <<page, serverNotes, hostStarted, panelVars, drawVars, probeVars>>

\* Retry on the error screen of ProjectView: loadProject up to its await
ClickRetry ==
    /\ page = "project"
    /\ ~hostLoading
    /\ hostError # ""
    /\ hostStarted < MaxHostRuns
    /\ hostLoading' = TRUE
    /\ hostRuns' = hostRuns (+) SetToBag({[kind |-> "loadProject", step |-> "loading",
                                           concept |-> <<>>, text |-> "",
                                           panel |-> FALSE, seen |-> {serverNotes}]})
    /\ hostStarted' = hostStarted + 1
    /\ UNCHANGED <<page, hasProjectData, notes, serverNotes, hostError, lastSaved>>
    /\ UNCHANGED <<dataVars, viewVars, selectionVars, panelVars, drawVars, probeVars>>

\* getProject settles inside the loadProject started by Retry; the graph is
\* rendered again only past the `if (error)` return, and the error is set
\* back to "" only by a rejection with an Error whose message is ""
RetrySettles(r) == LoadProjectSettles("loadProject", r)

\* Generate / Regenerate of the study guide (kind "generateOverview") or of
\* the podcast (kind "generateAudio"), disabled while the handler of that
\* kind is under way: the handler up to its first await, for a project that
\* has a reference
HandleGenerate(kind) ==
    /\ page = "project"
    /\ ~hostLoading
    /\ hostError = ""
    /\ hasProjectData
    /\ \A run \in BagToSet(hostRuns) : run.kind # kind
    /\ hostStarted < MaxHostRuns
    /\ hostRuns' = hostRuns (+) SetToBag({[kind |-> kind, concept |-> <<>>, text |-> "",
                       step |-> IF kind = "generateAudio" THEN "script" ELSE "overview",
                       panel |-> FALSE, seen |-> {}]})
    /\ hostStarted' = hostStarted + 1
    /\ UNCHANGED <<page, hasProjectData, notes, serverNotes, hostLoading, hostError, lastSaved>>
    /\ UNCHANGED <<dataVars, viewVars, selectionVars, panelVars, drawVars, probeVars>>

\* the request a generate handler awaits settles with r: generateOverview, or
\* generateAudioScript and then generateAudio; a rejection sets the error in
\* the catch, and the finally block enables the button again
GenerateSettles(kind, r) ==
    /\ kind \in {"generateOverview", "generateAudio"}
    /\ \E run \in BagToSet(hostRuns) :
          /\ run.kind = kind
          /\ hostError' = IF r.ok THEN hostError
                          ELSE ErrorMessage(r, IF kind = "generateAudio"
                                               THEN "Failed to generate audio"
                                               ELSE "Failed to generate overview")
          /\ UNCHANGED <<hostLoading, hasProjectData>>
          /\ HostRenders(FALSE,
                IF r.ok /\ run.step = "script"
                THEN (hostRuns (-) SetToBag({run}))
                        (+) SetToBag({[run EXCEPT !.step = "audio"]})
                ELSE hostRuns (-) SetToBag({run}),
                FALSE)
    /\ UNCHANGED <<page, notes, serverNotes, hostStarted, lastSaved, panelVars, drawVars,
                   probeVars>>

\* the graph is on screen
GraphShown == mounted /\ ~hostLoading /\ hostError = ""

\* ProjectView renders its error screen
ErrorScreen == page = "project" /\ ~hostLoading /\ hostError # ""

\* ProjectView after its first render and the mount effect, which has called
\* loadProject: loading (initially true) shows the spinner, projectData is
\* null, no graph is mounted, and the getProject request for the project,
\* whose graph is g, is under way.  The graph page is given the graph and the
\* currentProjectId of sessionStorage, or "" when there is none
InitHost ==
    /\ \E g \in SampleGraphs :
          \/ /\ graphData = g
             /\ projectId = <<"p">>
             /\ searchQuery = <<>>
             /\ graphView = "network"
             /\ animationTick = 0
             /\ liveIntervals = 0
             /\ mounted = FALSE
             /\ engineTicks = 0
             /\ engineRunning = FALSE
             /\ viewportFitted = FALSE
             /\ zoomTimers = 0
             /\ linkDistance = NotConfigured
             /\ chargeStrength = NotConfigured
             /\ hoveredNode = NoSelection
             /\ selectedNode = NoSelection
             /\ showNotes = FALSE
             /\ relatedConcepts = {}
             /\ conceptDefinition = <<>>
             /\ definitionFor = NoConcept
             /\ loadingDef = FALSE
             /\ inflight = {}
             /\ started = 0
             /\ isSaving = FALSE
             /\ page = "project"
             /\ hasProjectData = FALSE
             /\ notes = NoNotes
             /\ serverNotes = NoNotes
             /\ hostLoading = TRUE
             /\ hostError = ""
             /\ hostRuns = SetToBag({[kind |-> "mount", step |-> "loading", concept |-> <<>>,
                                      text |-> "", panel |-> FALSE, seen |-> {NoNotes}]})
             /\ hostStarted = 0
             /\ lastSaved = NoSave
          \/ \E pid \in ProjectIds : Mounted(g, pid) /\ HostIdle("graph")
    /\ PanelClosed("X") /\ NoFrame /\ NoProbe

\* the definition fetches touch no state of the notes and stay in flight here
NextHost ==
    \/ HandleNodeClick
    \/ ClosePanel
    \/ \E text \in Texts : SaveNotes(text)
    \/ \E r \in Settlements : LoadProjectSettles("mount", r)
    \/ BackendStoresNote
    \/ \E r \in Settlements : UpdateNotesSettles(r)
    \/ \E r \in Settlements : LoadProjectSettles("saveNotes", r)
    \/ ClickRetry
    \/ \E r \in Settlements : RetrySettles(r)
    \/ \E kind \in {"generateOverview", "generateAudio"} : HandleGenerate(kind)
    \/ \E kind \in {"generateOverview", "generateAudio"} :
          \E r \in Settlements : GenerateSettles(kind, r)

SpecHost == InitHost /\ [][NextHost]_vars


(***************************************************************************)
(* Canvas drawing: flow particles of a link, lines 648-657.                *)
(***************************************************************************)
\* String.prototype.charCodeAt for the characters of the explored names
CharCode(c) ==
    CASE c = "a" -> 97
      [] c = "b" -> 98
      [] c = "A" -> 65
      [] c = "B" -> 66
      [] c = "-" -> 45
      [] c = " " -> 32

\* `${srcNode.id}-${tgtNode.id}`
ParticleLinkId(link) == SourceId(link) \o <<"-">> \o TargetId(link)

\* linkId.split('').reduce((a, b) => a + b.charCodeAt(0), 0)
RECURSIVE LinkHash(_)
LinkHash(linkId) ==
    IF linkId = <<>> THEN 0
    ELSE LinkHash(SubSeq(linkId, 1, Len(linkId) - 1)) + CharCode(linkId[Len(linkId)])

\* particleOffset = (linkHash % 100) / 100, in hundredths
ParticleOffset(link) == LinkHash(ParticleLinkId(link)) % 100

\* t = (animationTick * 0.02 + particleOffset + p * 0.5) % 1 of particle p,
\* in hundredths
ParticleT(tick, link, p) == (tick * 2 + ParticleOffset(link) + p * 50) % 100

(***************************************************************************)
(* Node colour: getNodeColor, lines 375-381.  JavaScript numbers are       *)
(* doubles and << works on their 32-bit two's complement value; the hash   *)
(* leaves the 32-bit range, so a number is kept as two limbs,              *)
(* value = hi * 2^16 + lo with lo in 0 .. 2^16 - 1.                        *)
(***************************************************************************)
VIBRANT_COLORS ==
    << "#FF6B6B", "#4ECDC4", "#FFE66D", "#FF8E72", "#95E1D3",
       "#F38181", "#AA96DA", "#FCBAD3", "#A8D8EA", "#FFB7B2",
       "#8AC6D1", "#FFD166", "#F9C74F", "#43AA8B", "#577590",
       "#C0FDFB", "#FDB9FC", "#C2F970", "#FF9B71", "#7AD7F0" >>

Limb == 65536

\* the number hi * 2^16 + lo, for any integer lo
Num(hi, lo) == [hi |-> hi + (lo \div Limb), lo |-> lo % Limb]

NumAdd(a, b) == Num(a.hi + b.hi, a.lo + b.lo)
NumSub(a, b) == Num(a.hi - b.hi, a.lo - b.lo)

\* ToInt32: the value modulo 2^32, in -2^31 .. 2^31 - 1
ToInt32(a) == [hi |-> ((a.hi + 32768) % Limb) - 32768, lo |-> a.lo]

\* hash << 5
ShiftLeft5(a) ==
    LET i == ToInt32(a)
    IN  ToInt32(Num(i.hi * 32, i.lo * 32))

\* the value without Math.abs
MathAbsOmitted(a) == a

\* Math.abs
MathAbs(a) == IF a.hi < 0 THEN Num(-a.hi, -a.lo) ELSE a

\* the % of JavaScript by a positive integer n: the sign of the dividend
Remainder(a, n) ==
    LET m == IF a.hi < 0 THEN Num(-a.hi, -a.lo) ELSE a
        r == ((m.hi % n) * (Limb % n) + m.lo) % n
    IN  IF a.hi < 0 THEN -r ELSE r

\* arr[i] of a JavaScript array
ArrayGet(arr, i) == IF i \in 0..(Len(arr) - 1) THEN arr[i + 1] ELSE "undefined"

\* the loop of getNodeColor over the characters of the id
RECURSIVE HashOf(_)
HashOf(id) ==
    IF id = <<>> THEN Num(0, 0)
    ELSE LET hash == HashOf(SubSeq(id, 1, Len(id) - 1))
         IN  NumAdd(Num(0, CharCode(id[Len(id)])), NumSub(ShiftLeft5(hash), hash))

\* VIBRANT_COLORS[Math.abs(hash) % VIBRANT_COLORS.length]
GetNodeColor(id) ==
    ArrayGet(VIBRANT_COLORS, Remainder(MathAbs(HashOf(id)), Len(VIBRANT_COLORS)))

\* the ids to colour: every string of at most MaxIdLen characters
\* of "a", "B" and "-"
Ids == UNION { [1..n -> {"a", "B", "-"}] : n \in 0..MaxIdLen }

\* a node with this id is painted
PaintNode ==
    /\ output = <<>>
    /\ output' = <<GetNodeColor(input)>>
    /\ UNCHANGED <<dataVars, viewVars, selectionVars, panelVars, hostVars, drawVars, input>>

\* the same node is painted in a later frame
PaintNodeAgain ==
    /\ output # <<>>
    /\ output' = <<GetNodeColor(input)>>
    /\ UNCHANGED <<dataVars, viewVars, selectionVars, panelVars, hostVars, drawVars, input>>

InitColor ==
    /\ Mounted(NoGraph, <<"p">>)
    /\ PanelClosed("X") /\ HostIdle("project") /\ NoFrame
    /\ input \in Ids
    /\ output = <<>>

NextColor ==
    \/ PaintNode
    \/ PaintNodeAgain

SpecColor == InitColor /\ [][NextColor]_vars

(***************************************************************************)
(* The forces as a function of the number of visible nodes.  input holds   *)
(* filteredData.nodes.length of a graph in the network view; the two       *)
(* steps apply the bodies of the configuration effect and of onEngineTick. *)
(***************************************************************************)
\* the visible node count becomes n: a new run, and the configuration effect
\* on a rendered surface
VisibleCountChanges ==
    /\ \E n \in 0..MaxNodeCount :
          /\ n # input[1]
          /\ input' = <<n>>
          /\ engineTicks' = 0
          /\ engineRunning' = (n # 0)
          /\ viewportFitted' = FALSE
          /\ IF n # 0 THEN /\ zoomTimers < MaxZoomTimers
                           /\ ApplyCountForces(n)
                           /\ zoomTimers' = zoomTimers + 1
                      ELSE UNCHANGED <<linkDistance, chargeStrength, zoomTimers>>
    /\ UNCHANGED <<dataVars, graphView, animationTick, liveIntervals, mounted,
                   selectionVars, panelVars, hostVars, drawVars, output>>

\* one cool-down iteration with input[1] visible nodes
TickWithCount ==
    /\ engineRunning
    /\ engineTicks < cooldownTicks
    /\ engineTicks' = engineTicks + 1
    /\ ApplyTickForces(input[1])
    /\ UNCHANGED <<engineRunning, viewportFitted, zoomTimers>>
    /\ UNCHANGED <<dataVars, graphView, animationTick, liveIntervals, mounted,
                   selectionVars, panelVars, hostVars, drawVars, probeVars>>

InitForces ==
    /\ Mounted(NoGraph, <<"p">>)
    /\ PanelClosed("X") /\ HostIdle("project") /\ NoFrame
    /\ input = <<0>>
    /\ output = <<>>

NextForces ==
    \/ VisibleCountChanges
    \/ TickWithCount

SpecForces == InitForces /\ [][NextForces]_vars

(***************************************************************************)
(* Canvas drawing: the coordinate guards of nodeCanvasObject and           *)
(* linkCanvasObject, lines 526-528 and 615-622.  coordsFinite holds the    *)
(* pairs <<node id, axis>> whose coordinate is a finite number; the        *)
(* simulation writes the coordinates, a frame only reads them.             *)
(***************************************************************************)
\* Number.isFinite(node.x) && Number.isFinite(node.y)
IsFiniteXY(coords, id) == <<id, "x">> \in coords /\ <<id, "y">> \in coords

\* nodeCanvasObject without its guard
NodeCanvasObjectUnguarded(coords, node) == TRUE

\* nodeCanvasObject: does it paint the node
NodeCanvasObject(coords, node) == IsFiniteXY(coords, node.id)

\* linkCanvasObject: does it paint the link; an end that is found neither as
\* an object nor by filteredData.nodes.find makes it return
LinkCanvasObject(coords, f, link) ==
    /\ \E i \in 1..Len(f.nodes) : f.nodes[i].id = SourceId(link)
    /\ \E i \in 1..Len(f.nodes) : f.nodes[i].id = TargetId(link)
    /\ IsFiniteXY(coords, SourceId(link))
    /\ IsFiniteXY(coords, TargetId(link))

\* the simulation writes the coordinates of the visible nodes; a coordinate
\* can be undefined or NaN while the positions are not settled
SimulationMoves ==
    /\ mounted
    /\ SurfaceRendered(graphView, filteredData)
    /\ \E c \in SUBSET ({filteredData.nodes[i].id : i \in 1..Len(filteredData.nodes)} \X {"x", "y"}) :
          coordsFinite' = c
    /\ UNCHANGED <<dataVars, viewVars, selectionVars, panelVars, hostVars,
                   drawnNodes, drawnLinks, probeVars>>

\* one frame: the surface calls nodeCanvasObject for every visible node and
\* linkCanvasObject for every visible link
DrawFrame ==
    /\ mounted
    /\ SurfaceRendered(graphView, filteredData)
    /\ LET f == filteredData
       IN  /\ drawnNodes' = { f.nodes[i].id : i \in { j \in 1..Len(f.nodes) :
                                  NodeCanvasObject(coordsFinite, f.nodes[j]) } }
           /\ drawnLinks' = { <<SourceId(f.links[i]), TargetId(f.links[i])>> :
                                i \in { j \in 1..Len(f.links) :
                                  LinkCanvasObject(coordsFinite, f, f.links[j]) } }
    /\ UNCHANGED <<dataVars, viewVars, selectionVars, panelVars, hostVars,
                   coordsFinite, probeVars>>

InitDraw ==
    /\ \E g \in SampleGraphs : Mounted(g, <<"p">>)
    /\ PanelClosed("X")
    /\ HostIdle("project") /\ NoFrame /\ NoProbe

NextDraw ==
    \/ SimulationMoves
    \/ DrawFrame

SpecDraw == InitDraw /\ [][NextDraw]_vars

(***************************************************************************)
(* Outline export: ProjectView.exportToObsidian, lines 236-282.  The       *)
(* markdown is kept as its list of concept lines, a name and its indent    *)
(* level each; the title lines and the notes lines add no concept.         *)
(***************************************************************************)
\* nodes.find(n => n.name === nodeName): the index of the first match, or 0
FindByName(nodes, nodeName) ==
    LET found == { i \in 1..Len(nodes) : nodes[i].name = nodeName }
    IN  IF found = {} THEN 0 ELSE CHOOSE i \in found : \A j \in found : i <= j

\* processNode, and the forEach over node.outs from its k-th entry on; st is
\* the pair of the processed set and the lines written so far
RECURSIVE ProcessNode(_, _, _, _)
RECURSIVE ProcessOuts(_, _, _, _, _)
ProcessNode(nodes, st, nodeName, level) ==
    IF nodeName \in st.processed THEN st
    ELSE LET marked == [st EXCEPT !.processed = @ \cup {nodeName}]
             at == FindByName(nodes, nodeName)
         IN  IF at = 0 THEN marked
             ELSE ProcessOuts(nodes,
                              [marked EXCEPT !.lines =
                                  Append(@, [name |-> nodeName, level |-> level])],
                              nodes[at].outs, 1, level + 1)

ProcessOuts(nodes, st, outs, k, level) ==
    IF k > Len(outs) THEN st
    ELSE ProcessOuts(nodes,
                     IF outs[k] \in st.processed THEN st
                     ELSE ProcessNode(nodes, st, outs[k], level),
                     outs, k + 1, level)

\* rootNodes.forEach(node => processNode(node.name)) from the k-th root on
RECURSIVE ProcessRoots(_, _, _, _)
ProcessRoots(nodes, st, rootNodes, k) ==
    IF k > Len(rootNodes) THEN st
    ELSE ProcessRoots(nodes, ProcessNode(nodes, st, rootNodes[k].name, 0), rootNodes, k + 1)

\* the concept lines of the exported markdown
ExportToObsidian(nodes) ==
    LET rootNodes == SelectSeq(nodes, LAMBDA node : Len(node.ins) = 0)
    IN  ProcessRoots(nodes, [processed |-> {}, lines |-> <<>>], rootNodes, 1).lines

\* Export to Obsidian is clicked for the project whose records are input
ClickExport ==
    /\ output = <<>>
    /\ output' = <<ExportToObsidian(input)>>
    /\ UNCHANGED <<dataVars, viewVars, selectionVars, panelVars, hostVars, drawVars, input>>

InitExport ==
    /\ Mounted(NoGraph, <<"p">>)
    /\ PanelClosed("X") /\ HostIdle("project") /\ NoFrame
    /\ \E n \in 0..MaxRecords : \E g \in NeighborListInputs(n) : input = g.nodes
    /\ output = <<>>

SpecExport == InitExport /\ [][ClickExport]_vars

(***************************************************************************)
(* Vocabulary of the properties.                                           *)
(***************************************************************************)
NodeIds(data) == { data.nodes[i].id : i \in 1..Len(data.nodes) }

RecordNames(g) == { g.nodes[i].name : i \in 1..Len(g.nodes) }

\* the (source, target) pairs a neighbor-list input declares
DeclaredPairs(g) ==
    UNION { { <<g.nodes[i].name, g.nodes[i].outs[k]>> : k \in 1..Len(g.nodes[i].outs) }
            \cup { <<g.nodes[i].ins[k], g.nodes[i].name>> : k \in 1..Len(g.nodes[i].ins) } :
            i \in 1..Len(g.nodes) }

ReferencedNames(g) == { p[1] : p \in DeclaredPairs(g) } \cup { p[2] : p \in DeclaredPairs(g) }

Touches(link, id) == SourceId(link) = id \/ TargetId(link) = id

\* the number of distinct edges with an end at id
Degree(data, id) == Cardinality({ l \in Range(data.links) : Touches(l, id) })

AllWhitespace(q) == \A i \in 1..Len(q) : q[i] = " "

SameLetter(c, d) == LowerChar(c) = LowerChar(d)

ContainsIgnoringCase(name, q) ==
    \E i \in 0..(Len(name) - Len(q)) :
        \A k \in 1..Len(q) : SameLetter(name[i + k], q[k])

(***************************************************************************)
(* C1: every edge built from a neighbor-list input has its source id and   *)
(* its target id in the node set, every referenced name is a node, and a   *)
(* node that has no record of its own has a connection count of at least 1.*)
(***************************************************************************)
C1_NoDanglingEdges ==
    IsNeighborListForm(graphData) =>
        LET e     == enrichedData
            ids   == NodeIds(e)
            names == RecordNames(graphData)
        IN  /\ \A i \in 1..Len(e.links) :
                  SourceId(e.links[i]) \in ids /\ TargetId(e.links[i]) \in ids
            /\ \A nm \in ReferencedNames(graphData) : nm \in ids
            /\ \A i \in 1..Len(e.nodes) :
                  e.nodes[i].id \notin names => e.nodes[i].connections >= 1

\* a node without a record of its own that is the end of a built edge
C1_Witness ==
    /\ IsNeighborListForm(graphData)
    /\ LET e == enrichedData
       IN  \E i \in 1..Len(e.nodes) :
             /\ e.nodes[i].id \notin RecordNames(graphData)
             /\ \E k \in 1..Len(e.links) : Touches(e.links[k], e.nodes[i].id)

(***************************************************************************)
(* C2: the edge list of a neighbor-list input holds no (source, target)    *)
(* pair twice, and a pair declared through outs, through ins or through    *)
(* both is in the edge list exactly once.                                  *)
(***************************************************************************)
C2_SingleMergedEdge ==
    IsNeighborListForm(graphData) =>
        LET links == enrichedData.links
        IN  /\ \A i, k \in 1..Len(links) : links[i] = links[k] => i = k
            /\ \A p \in DeclaredPairs(graphData) :
                  Cardinality({ i \in 1..Len(links) :
                                  links[i] = [source |-> p[1], target |-> p[2]] }) = 1

(***************************************************************************)
(* C3: no declared (source, target) pair is missing from the edge list,    *)
(* whatever characters the names contain.                                  *)
(***************************************************************************)
C3_EveryDeclaredPairEmitted ==
    IsNeighborListForm(graphData) =>
        LET links == Range(enrichedData.links)
        IN  \A p \in DeclaredPairs(graphData) :
                [source |-> p[1], target |-> p[2]] \in links

(***************************************************************************)
(* C4: in every accepted form of the input the node ids of the canonical   *)
(* graph are pairwise distinct.                                            *)
(***************************************************************************)
C4_NodeIdsDistinct ==
    LET nodes == enrichedData.nodes
    IN  \A i, k \in 1..Len(nodes) : nodes[i].id = nodes[k].id => i = k

(***************************************************************************)
(* C5: the connection count of a node is the number of distinct canonical  *)
(* edges with that node as source or target (0 for an isolated node, 1 for *)
(* a node whose only edge is a self-loop).                                 *)
(***************************************************************************)
C5_ConnectionCountIsDegree ==
    LET e == enrichedData
    IN  \A i \in 1..Len(e.nodes) :
            e.nodes[i].connections = Degree(e, e.nodes[i].id)

(***************************************************************************)
(* C6: importance is the connection count over max(1, largest connection   *)
(* count), lies in [0,1], is 1 at the nodes of maximum degree of a graph    *)
(* with an edge and 0 at every node of a graph without edges.              *)
(***************************************************************************)
C6_ImportanceNormalized ==
    ~enrichedData.isNull =>
        LET e       == enrichedData
            nodes   == e.nodes
            largest == Max({ nodes[i].connections : i \in 1..Len(nodes) } \cup {1})
        IN  \A i \in 1..Len(nodes) :
              /\ RatEq(nodes[i].importance, Rat(nodes[i].connections, largest))
              /\ RatLeq(Rat(0, 1), nodes[i].importance)
              /\ RatLeq(nodes[i].importance, Rat(1, 1))
              /\ (e.links # <<>> /\ nodes[i].connections = largest)
                    => RatEq(nodes[i].importance, Rat(1, 1))
              /\ e.links = <<>> => RatEq(nodes[i].importance, Rat(0, 1))

(***************************************************************************)
(* C7: size = 25 + importance * 45, size lies in [25,70], and within one   *)
(* graph a larger connection count never gives a smaller size.             *)
(***************************************************************************)
C7_SizeBoundedMonotone ==
    LET nodes == enrichedData.nodes
    IN  \A i \in 1..Len(nodes) :
          /\ RatEq(nodes[i].val, IntPlusRat(25, RatTimesInt(nodes[i].importance, 45)))
          /\ RatLeq(Rat(25, 1), nodes[i].val)
          /\ RatLeq(nodes[i].val, Rat(70, 1))
          /\ \A k \in 1..Len(nodes) :
                nodes[i].connections >= nodes[k].connections
                    => RatLeq(nodes[k].val, nodes[i].val)

\* a graph with nodes of different connection counts: the larger at size 70,
\* the smaller strictly between 25 and 70
C7_Witness ==
    LET nodes == enrichedData.nodes
    IN  \E i, k \in 1..Len(nodes) :
          /\ nodes[i].connections > nodes[k].connections
          /\ RatEq(nodes[i].val, Rat(70, 1))
          /\ ~RatLeq(Rat(70, 1), nodes[k].val)
          /\ ~RatLeq(nodes[k].val, Rat(25, 1))

(***************************************************************************)
(* C8: with an empty or all-whitespace query the visible sub-graph is the  *)
(* canonical graph: same nodes, same edges, same order.                    *)
(***************************************************************************)
C8_BlankQueryShowsAll ==
    AllWhitespace(searchQuery) => filteredData = enrichedData

\* a whitespace query typed over a graph with an edge
C8_Witness ==
    /\ searchQuery = <<" ">>
    /\ ~enrichedData.isNull
    /\ enrichedData.links # <<>>
    /\ filteredData.links # <<>>

(***************************************************************************)
(* C9: with a non-blank query the visible nodes are exactly the seeds      *)
(* (name contains the query, ignoring case) and the nodes one edge away    *)
(* from a seed, in canonical order, and the visible edges are exactly the  *)
(* canonical edges with both ends visible.                                 *)
(***************************************************************************)
Seeds(e, q) == { n \in Range(e.nodes) : ContainsIgnoringCase(n.name, q) }

SeedNeighbors(e, seedIds) ==
    { n \in Range(e.nodes) :
        \E l \in Range(e.links) :
            \/ SourceId(l) \in seedIds /\ TargetId(l) = n.id
            \/ TargetId(l) \in seedIds /\ SourceId(l) = n.id }

C10_FilterIdempotent ==
    LET f == filteredData
    IN  FilteredDataOf(f, searchQuery) = f

\* a query that hides part of the graph and keeps an edge
C10_Witness ==
    /\ ~AllWhitespace(searchQuery)
    /\ LET f == filteredData
       IN  /\ f # enrichedData
           /\ f.links # <<>>
           /\ Len(f.nodes) >= 2

(***************************************************************************)
(* C11: for every search query and in both view modes, each node of the    *)
(* visible sub-graph carries the connection count, importance and size it  *)
(* has in the canonical graph.                                             *)
(***************************************************************************)
C11_VisibleNodesCanonical ==
    LET e == enrichedData
        f == filteredData
    IN  \A i \in 1..Len(f.nodes) :
          \E j \in 1..Len(e.nodes) :
            /\ e.nodes[j].id = f.nodes[i].id
            /\ e.nodes[j].connections = f.nodes[i].connections
            /\ e.nodes[j].importance = f.nodes[i].importance
            /\ e.nodes[j].val = f.nodes[i].val

\* in the timeline view, a query shows a node without one of its two neighbors
C11_Witness ==
    /\ graphView = "timeline"
    /\ ~AllWhitespace(searchQuery)
    /\ LET f == filteredData
       IN  \E n \in Range(f.nodes) :
             /\ n.connections = 2
             /\ Cardinality({ i \in 1..Len(f.links) : Touches(f.links[i], n.id) }) = 1

(***************************************************************************)
(* C13: the definition shown in the open panel of the selected node is     *)
(* never the response of a fetch started for another node.                 *)
(***************************************************************************)
C13_NoStaleDefinition ==
    (mounted /\ showNotes /\ ~loadingDef /\ definitionFor # NoConcept)
        => definitionFor = selectedNode.id

(***************************************************************************)
(* C14: while the definition fetch of the currently selected node is in    *)
(* flight, the loading flag passed to the detail panel is true.            *)
(***************************************************************************)
C14_LoadingWhileInFlight ==
    (mounted /\ \E f \in inflight : f.seq = started /\ f.nodeId = selectedNode.id)
        => loadingDef

(***************************************************************************)
(* C15: every started definition fetch ends, whatever the response, and    *)
(* ends with the loading flag false and a non-empty definition text.       *)
(***************************************************************************)
C15_FetchEndsWithText ==
    /\ [][\A f \in inflight :
            (mounted /\ f \notin inflight')
                => (~loadingDef' /\ conceptDefinition' # <<>>)]_vars
    /\ \A s \in 1..MaxFetches :
          (\E f \in inflight : f.seq = s) ~> ~(\E f \in inflight : f.seq = s)

\* a fetch answered OK without a definition has ended
C15_Witness ==
    /\ mounted
    /\ started > 0
    /\ inflight = {}
    /\ ~loadingDef
    /\ conceptDefinition = <<"No definition available">>

(***************************************************************************)
(* C17: once a non-empty graph is loaded, whatever has been typed, the     *)
(* search text can still be changed.                                       *)
(***************************************************************************)
C17_SearchReenterable ==
    (mounted /\ ~enrichedData.isNull) => SearchRendered

(***************************************************************************)
(* C18: the result for an input with an empty node list differs from the   *)
(* result when no input has been supplied yet.                             *)
(***************************************************************************)
C18_EmptyDistinctFromNotLoaded ==
    (~graphData.isNull /\ Len(graphData.nodes) = 0)
        => enrichedData # EnrichedDataOf(NoGraph)

(***************************************************************************)
(* C20: at most one ticker interval is live, none in the timeline view or  *)
(* after unmounting; the animation tick changes only by +1 when a live     *)
(* ticker fires, never on a simulation iteration.                          *)
(***************************************************************************)
C20_TickerDiscipline ==
    /\ [](/\ liveIntervals <= 1
          /\ (graphView = "timeline" \/ ~mounted) => liveIntervals = 0)
    /\ [][/\ animationTick' # animationTick
              => (animationTick' = animationTick + 1 /\ liveIntervals > 0)
          /\ engineTicks' # engineTicks => animationTick' = animationTick]_vars

\* the view was switched to timeline after the ticker and the simulation ran,
\* then the component was unmounted
C20_Witness ==
    /\ ~mounted
    /\ graphView = "timeline"
    /\ animationTick > 0
    /\ liveIntervals = 0

(***************************************************************************)
(* C12: the insights displayed in the open panel are those fetched for the *)
(* concept the panel shows, never the late result of an earlier concept.   *)
(***************************************************************************)
C12_NoStaleInsights ==
    (isOpen /\ ~insights.isNull) => insights.for = conceptName

(***************************************************************************)
(* C16: after a failed insight lookup (success = false, a non-OK status,   *)
(* a thrown error) the panel, no longer loading, shows a failure message   *)
(* and an enabled retry control.                                           *)
(***************************************************************************)
C16_FailureShownWithRetry ==
    (/\ isOpen
     /\ ~panelLoading
     /\ panelError # "" \/ (~insights.isNull /\ ~insights.success))
        => (ShowsFailure /\ RefreshEnabled)

(***************************************************************************)
(* C19: once a save of a note for a concept has completed without error,   *)
(* the notes the graph shows for that concept are the saved text, on the   *)
(* project view and on the graph page.                                     *)
(***************************************************************************)
C19_SavedNoteShown ==
    (GraphShown /\ hostRuns = EmptyBag /\ ~lastSaved.isNull)
        => GetCurrentNotes(lastSaved.concept) = lastSaved.text

(***************************************************************************)
(* C22: a click on a node, in the network view or on its timeline entry,   *)
(* selects the node, opens the detail panel and starts a definition fetch  *)
(* keyed by the id of the node.                                            *)
(***************************************************************************)
C22_ClickSelectsOpensFetches ==
    [][(~showNotes /\ showNotes')
          => /\ selectedNode' # NoSelection
             /\ \E f \in inflight' \ inflight : f.nodeId = selectedNode'.id
             /\ loadingDef']_vars

(***************************************************************************)
(* C23: a change of the view mode or of the search text changes neither    *)
(* the selected node nor whether the detail panel is on screen.            *)
(***************************************************************************)
C23_SelectionSurvivesViewAndSearch ==
    [][(graphView' # graphView \/ searchQuery' # searchQuery)
          => /\ selectedNode' = selectedNode
             /\ showNotes' = showNotes
             /\ PanelShownIn(graphData', searchQuery', mounted', showNotes', selectedNode')
                   = PanelShown]_vars

(***************************************************************************)
(* C24: closing the detail panel leaves no node selected and no panel      *)
(* shown, and does not change the hovered node.                            *)
(***************************************************************************)
C24_CloseReturnsToNoSelection ==
    [][(showNotes /\ ~showNotes')
          => /\ selectedNode' = NoSelection
             /\ ~PanelShownIn(graphData', searchQuery', mounted', showNotes', selectedNode')
             /\ hoveredNode' = hoveredNode]_vars

(***************************************************************************)
(* C25: any two distinct links of the visible sub-graph have different     *)
(* particle phase offsets, and the parameter of each of the two particles  *)
(* of a link lies in [0,1) at the current animation tick.                  *)
(***************************************************************************)
C25_DistinctPhaseOffsets ==
    LET f == filteredData
    IN  ~f.isNull =>
          /\ \A i, j \in 1..Len(f.links) :
                i # j => ParticleOffset(f.links[i]) # ParticleOffset(f.links[j])
          /\ \A i \in 1..Len(f.links) : \A p \in 0..1 :
                ParticleT(animationTick, f.links[i], p) \in 0..99

(***************************************************************************)
(* C26: for every node id, the empty one and ids whose hash leaves the     *)
(* 32-bit range included, the colour is one of the 20 entries of the       *)
(* palette, and painting the same id again gives the same colour.          *)
(***************************************************************************)
C26_ColourInPalette ==
    /\ [](output # <<>> => output[1] \in Range(VIBRANT_COLORS))
    /\ []((output # <<>> /\ input = <<>>) => output[1] = VIBRANT_COLORS[1])
    /\ [](Len(VIBRANT_COLORS) = 20)
    /\ [][output # <<>> => output' = output]_vars

\* a painted id whose hash is negative and outside the 32-bit range
C26_Witness ==
    /\ output # <<>>
    /\ output[1] \in Range(VIBRANT_COLORS)
    /\ HashOf(input).hi < 0
    /\ ToInt32(HashOf(input)) # HashOf(input)

(***************************************************************************)
(* C27: for n >= 1 visible nodes the link distance set when the count      *)
(* changes and the one set on a simulation tick lie in [120,350] and do    *)
(* not decrease when n grows, and after a tick the distance in force is    *)
(* the one of the current count.                                           *)
(***************************************************************************)
C27_LinkDistanceClamped ==
    /\ [](linkDistance # NotConfigured => linkDistance \in 120..350)
    /\ [](LET n == input[1]
          IN  n >= 1 =>
                /\ DistanceOnCountChange(n) \in 120..350
                /\ DistanceOnTick(n) \in 120..350
                /\ DistanceOnCountChange(n) <= DistanceOnCountChange(n + 1)
                /\ DistanceOnTick(n) <= DistanceOnTick(n + 1))
    /\ [][engineTicks' = engineTicks + 1
            => linkDistance' = DistanceOnTick(input'[1])]_vars

\* a tick with enough visible nodes for the upper clamp of onEngineTick, after
\* the count effect had set its own upper clamp
C27_Witness ==
    /\ engineTicks > 0
    /\ input[1] * 8 > 300
    /\ linkDistance = 300

(***************************************************************************)
(* C28: a frame leaves the visible sub-graph as it is and paints exactly   *)
(* the visible nodes whose x and y are finite and the visible links whose  *)
(* two ends have finite x and y: what is skipped in one frame is still in  *)
(* the model and is painted by a later frame once its coordinates are      *)
(* finite.                                                                 *)
(***************************************************************************)
C28_FrameSkipsOnlyNonFinite ==
    [][(drawnNodes' # drawnNodes \/ drawnLinks' # drawnLinks)
          => LET f == filteredData
             IN  /\ graphData' = graphData
                 /\ searchQuery' = searchQuery
                 /\ coordsFinite' = coordsFinite
                 /\ \A i \in 1..Len(f.nodes) :
                       f.nodes[i].id \in drawnNodes'
                         <=> IsFiniteXY(coordsFinite, f.nodes[i].id)
                 /\ \A i \in 1..Len(f.links) :
                       <<SourceId(f.links[i]), TargetId(f.links[i])>> \in drawnLinks'
                         <=> (/\ IsFiniteXY(coordsFinite, SourceId(f.links[i]))
                              /\ IsFiniteXY(coordsFinite, TargetId(f.links[i])))]_vars

\* the last frame painted one node and one link and skipped another node,
\* whose coordinates have become finite since
C28_Witness ==
    /\ drawnNodes # {}
    /\ drawnLinks # {}
    /\ \E i \in 1..Len(filteredData.nodes) :
          /\ filteredData.nodes[i].id \notin drawnNodes
          /\ IsFiniteXY(coordsFinite, filteredData.nodes[i].id)

(***************************************************************************)
(* C29: when the project load started by Retry on the error screen of the  *)
(* project view succeeds, the view shows the project content again.        *)
(***************************************************************************)
C29_RetryLeavesErrorScreen ==
    [][RetrySettles([ok |-> TRUE, found |-> TRUE, isError |-> FALSE, message |-> ""])
          => (~ErrorScreen' /\ GraphShown')]_vars

(***************************************************************************)
(* C30: the outline export of a project graph ends and its outline has     *)
(* exactly one line for every concept that has a record.                   *)
(***************************************************************************)
C30_ExportListsEveryRecordOnce ==
    output # <<>> =>
        \A i \in 1..Len(input) :
            Cardinality({ k \in 1..Len(output[1]) :
                            output[1][k].name = input[i].name }) = 1

====
